---------------------------- MODULE Spec2Model ----------------------------
(***************************************************************************)
(* Model of api_server.py: the rhyme table built by RhymeSearchGPT, the    *)
(* three business-logic methods and the three POST handlers wrapping them. *)
(*                                                                         *)
(* Text is a sequence of characters.  A character outside ASCII is written *)
(* as its code point ("U611B"), an ASCII character as itself, so len(),    *)
(* slicing, concatenation and substring tests are computed on characters   *)
(* as Python computes them.  An Optional[T] field is <<>> for None and     *)
(* <<v>> for the value v.                                                  *)
(***************************************************************************)
EXTENDS Integers, Sequences, FiniteSets, TLC

VARIABLES rhyme_gpt, conn

vars == <<rhyme_gpt, conn>>

---------------------------------------------------------------------------
(* Bounds of the model *)

\* max_results and max_lines range over -MaxNeg..MaxInt
MaxInt == 10
MaxNeg == 3

---------------------------------------------------------------------------
(* Python primitives *)

None == <<>>

Some(v) == <<v>>

\* seq[:n] for an Optional[int] n
Slice(seq, n) ==
    IF n = None THEN seq
    ELSE IF n[1] >= 0
         THEN SubSeq(seq, 1, IF n[1] < Len(seq) THEN n[1] ELSE Len(seq))
         ELSE SubSeq(seq, 1, IF Len(seq) + n[1] > 0 THEN Len(seq) + n[1] ELSE 0)

\* sub in s, for two strings
Contains(s, sub) ==
    \E i \in 0..(Len(s) - Len(sub)) : SubSeq(s, i + 1, i + Len(sub)) = sub

\* the list seq is a prefix of the list full
IsPrefix(seq, full) == Len(seq) <= Len(full) /\ SubSeq(full, 1, Len(seq)) = seq

\* len([c for c in word if pred(c)])
RECURSIVE CountIn(_, _)
CountIn(word, chars) ==
    IF word = <<>> THEN 0
    ELSE (IF Head(word) \in chars THEN 1 ELSE 0) + CountIn(Tail(word), chars)

\* list(word)
ListOf(word) == [i \in 1..Len(word) |-> <<word[i]>>]

Min(a, b) == IF a < b THEN a ELSE b

---------------------------------------------------------------------------
(* RhymeSearchGPT *)

\* the dictionary literal of __init__
sample_rhymes ==
       (<<"U611B">> :> << <<"U958B">>, <<"U6D77">>, <<"U8C9D">>, <<"U56DE">>, <<"U4F1A">>,
                          <<"U8CB7">>, <<"U53F0">>, <<"U614B">>, <<"U4EE3">> >>)
    @@ (<<"U5922">> :> << <<"U96F2">>, <<"U7D44">>, <<"U8FBC">>, <<"U7A4D">>, <<"U8A70">>,
                          <<"U6458">>, <<"U6F5C">> >>)
    @@ (<<"U5149">> :> << <<"U7406">>, <<"U5229">>, <<"U529B">>, <<"U5207">>, <<"U7740">>,
                          <<"U52DD">>, <<"U7ACB">> >>)
    @@ (<<"U5FC3">> :> << <<"U4FE1">>, <<"U65B0">>, <<"U771F">>, <<"U9032">>, <<"U89AA">>,
                          <<"U91DD">>, <<"U82AF">> >>)
    @@ (<<"U6B4C">> :> << <<"U82B1">>, <<"U9999">>, <<"U83D3">>, <<"U8A71">>, <<"U4FA1">>,
                          <<"U83EF">>, <<"U5316">> >>)
    @@ (<<"U5E0C", "U671B">> :> << <<"U672A", "U6765">>, <<"U671F", "U5F85">>,
                          <<"U9858", "U3044">>, <<"U76EE", "U6A19">>, <<"U5922", "U60F3">>,
                          <<"U7406", "U60F3">> >>)
    @@ (<<"U685C">> :> << <<"U82B1">>, <<"U6625">>, <<"U7F8E">>, <<"U512A">>, <<"U9999">>,
                          <<"U96C5">> >>)

\* the value of os.environ.get("OPENAI_API_KEY"): unset, or a key
ApiKeys == {None, Some(<<"s", "k", "-", "x">>)}

\* the instance built by RhymeSearchGPT()
RhymeSearchGPT(key) == [api_key |-> key, sample_rhymes |-> sample_rhymes]

\* a default whose three candidates are all the word with a suffix
SynthesizedCandidates_suffixed(word) ==
    << word \o <<"U97F3">>, word \o <<"U97FB">>, word \o <<"U985E", "U4F3C">> >>

\* the default of sample_rhymes.get(word, default)
SynthesizedCandidates(word) ==
    << word \o <<"U97F3">>, word \o <<"U97FB">>, <<"U985E", "U4F3C">> >>

\* sample_rhymes.get(word, default)
DictGet(table, word) ==
    IF word \in DOMAIN table THEN table[word] ELSE SynthesizedCandidates(word)

\* the "phonetic_analysis" entry of the search result
SearchPhoneticAnalysis(word) ==
    [mora_count   |-> Len(word),
     ending_vowel |-> IF word # <<>> THEN <<word[Len(word)]>> ELSE <<>>,
     vowel_pattern |-> <<"U6A21", "U64EC", "U30D1", "U30BF", "U30FC", "U30F3">>]

\* a search that uses phonetic_similarity: above 0.5 only the best candidate is kept
search_rhymes_for_gpt_filtered(self, word, max_results, phonetic_similarity) ==
    LET found  == Slice(DictGet(self.sample_rhymes, word), max_results)
        rhymes == IF phonetic_similarity # None /\ phonetic_similarity[1] > 50
                  THEN SubSeq(found, 1, IF Len(found) < 1 THEN Len(found) ELSE 1)
                  ELSE found
    IN  [status       |-> "success",
         query_word   |-> word,
         rhymes       |-> rhymes,
         ai_suggestions |-> << <<"A", "I">> \o word, <<"U65B0">> \o word, <<"U5FC3">> \o word >>,
         phonetic_analysis |-> SearchPhoneticAnalysis(word),
         total_results |-> Len(rhymes),
         usage_examples |->
            << word \o <<"U3092", "U4F7F", "U3063", "U305F", "U4F8B", "U6587", "1">>,
               word \o <<"U3092", "U4F7F", "U3063", "U305F", "U4F8B", "U6587", "2">> >>]

search_rhymes_for_gpt(self, word, max_results, phonetic_similarity) ==
    LET rhymes == Slice(DictGet(self.sample_rhymes, word), max_results)
    IN  [status       |-> "success",
         query_word   |-> word,
         rhymes       |-> rhymes,
         ai_suggestions |-> << <<"A", "I">> \o word, <<"U65B0">> \o word, <<"U5FC3">> \o word >>,
         phonetic_analysis |-> SearchPhoneticAnalysis(word),
         total_results |-> Len(rhymes),
         usage_examples |->
            << word \o <<"U3092", "U4F7F", "U3063", "U305F", "U4F8B", "U6587", "1">>,
               word \o <<"U3092", "U4F7F", "U3063", "U305F", "U4F8B", "U6587", "2">> >>]

\* the characters of the literal tested by "c in ..." in analyze_phonetics_for_gpt
VowelChars == {"U3042", "U3044", "U3046", "U3048", "U304A"}

\* an analysis that counts only the vowel characters as morae
analyze_phonetics_for_gpt_vowels(self, word, detailed) ==
    [status        |-> "success",
     word          |-> word,
     mora_count    |-> CountIn(word, VowelChars),
     syllable_structure |-> ListOf(word),
     vowel_pattern |-> <<"U6A21", "U64EC", "U30D1", "U30BF", "U30FC", "U30F3">>,
     rhyme_class   |-> word \o <<"U30AF", "U30E9", "U30B9">>,
     phonetic_features |->
        [consonants |-> Len(word) - CountIn(word, VowelChars),
         vowels     |-> CountIn(word, VowelChars)]]

analyze_phonetics_for_gpt(self, word, detailed) ==
    [status        |-> "success",
     word          |-> word,
     mora_count    |-> Len(word),
     syllable_structure |-> ListOf(word),
     vowel_pattern |-> <<"U6A21", "U64EC", "U30D1", "U30BF", "U30FC", "U30F3">>,
     rhyme_class   |-> word \o <<"U30AF", "U30E9", "U30B9">>,
     phonetic_features |->
        [consonants |-> Len(word) - CountIn(word, VowelChars),
         vowels     |-> CountIn(word, VowelChars)]]

\* the 8 template lines, each interpolating theme
RapTemplates(theme) ==
    << theme \o <<"U3078", "U306E", "U9053", "U306E", "U308A", "U3001", "U5FC3", "U306B", "U523B", "U3080">>,
       <<"U56F0", "U96E3", "U3092", "U4E57", "U308A", "U8D8A", "U3048", "U3001">> \o theme
            \o <<"U3092", "U898B", "U3064", "U3081">>,
       <<"U5922", "U3068", "U73FE", "U5B9F", "U3001">> \o theme \o <<"U304C", "U5C0E", "U304F">>,
       <<"U524D", "U9032", "U3042", "U308B", "U306E", "U307F", "U3001">> \o theme
            \o <<"U3068", "U3068", "U3082", "U306B">>,
       <<"U5149", "U5DEE", "U3059", "U672A", "U6765", "U3001">> \o theme
            \o <<"U3092", "U4FE1", "U3058", "U3066">>,
       <<"U6B69", "U307F", "U7D9A", "U3051", "U308B", "U3001">> \o theme \o <<"U306E", "U529B", "U3067">>,
       <<"U5E0C", "U671B", "U306E", "U6B4C", "U58F0", "U3001">> \o theme \o <<"U97FF", "U304B", "U305B">>,
       <<"U65B0", "U305F", "U306A", "U660E", "U65E5", "U3001">> \o theme
            \o <<"U3068", "U6B69", "U3082", "U3046">> >>

\* rhyme_words or [theme]
UsedRhymeWords(theme, rhyme_words) ==
    IF rhyme_words = None \/ rhyme_words = Some(<<>>) THEN <<theme>> ELSE rhyme_words[1]

\* a generation that reports "mock" when no credential is configured
generate_rap_suggestions_for_gpt_mock(self, theme, rhyme_words, style, max_lines) ==
    [status   |-> IF self.api_key = None THEN "mock" ELSE "success",
     theme    |-> theme,
     style    |-> style,
     lyrics   |-> Slice(RapTemplates(theme), max_lines),
     rhyme_analysis |-> [rhyme_scheme |-> "ABAB", mora_pattern |-> "7-7-7-7"],
     used_rhyme_words |-> UsedRhymeWords(theme, rhyme_words),
     suggested_flow |-> <<"4", "/", "4", "U62CD", "U5B50", "U3001", "U4E2D", "U30C6", "U30F3", "U30DD">>,
     alternative_versions |->
        << theme \o <<"U3092", "U30C6", "U30FC", "U30DE", "U306B", "U3057", "U305F", "U5225",
                      "U30D0", "U30FC", "U30B8", "U30E7", "U30F3", "U3082", "U751F", "U6210",
                      "U53EF", "U80FD">> >>]

generate_rap_suggestions_for_gpt(self, theme, rhyme_words, style, max_lines) ==
    [status   |-> "success",
     theme    |-> theme,
     style    |-> style,
     lyrics   |-> Slice(RapTemplates(theme), max_lines),
     rhyme_analysis |-> [rhyme_scheme |-> "ABAB", mora_pattern |-> "7-7-7-7"],
     used_rhyme_words |-> UsedRhymeWords(theme, rhyme_words),
     suggested_flow |-> <<"4", "/", "4", "U62CD", "U5B50", "U3001", "U4E2D", "U30C6", "U30F3", "U30DD">>,
     alternative_versions |->
        << theme \o <<"U3092", "U30C6", "U30FC", "U30DE", "U306B", "U3057", "U305F", "U5225",
                      "U30D0", "U30FC", "U30B8", "U30E7", "U30F3", "U3082", "U751F", "U6210",
                      "U53EF", "U80FD">> >>]

---------------------------------------------------------------------------
(* Request models *)

\* the values an Optional[int] field takes in the model
OptInts == {None} \cup {Some(n) : n \in -MaxNeg..MaxInt}

\* "", a one-character key, the two-character key, a word that is no key
SearchWords == {<<>>, <<"U611B">>, <<"U5E0C", "U671B">>, <<"U732B">>}

AnalyzeWords == {<<>>, <<"U611B">>, <<"U3042", "U3044">>, <<"U732B", "U3042">>, <<"U5E0C", "U671B">>}

Themes == {<<>>, <<"U611B">>, <<"U5E0C", "U671B">>}

\* phonetic_similarity in hundredths: 0.7 (the default) and 0.3
RhymeSearchRequest ==
    [word : SearchWords, max_results : OptInts, phonetic_similarity : {Some(70), Some(30)}]

PhoneticAnalysisRequest == [word : AnalyzeWords, detailed : {Some(TRUE), Some(FALSE)}]

\* rhyme_words and style vary together: both omitted-as-null, or both given
RapSuggestionRequest ==
    {[theme |-> t, rhyme_words |-> o.rhyme_words, style |-> o.style, max_lines |-> m] :
        t \in Themes, m \in OptInts,
        o \in {[rhyme_words |-> None, style |-> None],
               [rhyme_words |-> Some(<< <<"U6D77">> >>), style |-> Some(<<"m", "o", "d", "e", "r", "n">>)]}}

---------------------------------------------------------------------------
(* Route handlers *)

\* What the business-logic call inside a handler's try block does: it runs as
\* written, or it has been replaced by one that raises Exception(msg), or by
\* one that returns a falsy value.
NoFault == [kind |-> "none"]

ExcMessages == {<<>>, <<"b", "o", "o", "m">>}

RaiseFaults == {[kind |-> "raise", msg |-> m] : m \in ExcMessages}

FalsyFault == [kind |-> "falsy"]

\* return JSONResponse(content=..., status_code=200)
JSONResponse(content) == [status_code |-> 200, content |-> content]

\* raise HTTPException(status_code=500, detail=...)
HTTPException(detail) == [status_code |-> 500, detail |-> detail]

\* a search handler that answers an exception like the rap handler does, with a 200
search_rhymes_swallow(gpt, request, fault) ==
    IF fault.kind = "raise"
    THEN JSONResponse([status |-> "error_fallback", query_word |-> request.word,
                       message |-> fault.msg])
    ELSE JSONResponse(search_rhymes_for_gpt(gpt, request.word, request.max_results,
                                            request.phonetic_similarity))

search_rhymes(gpt, request, fault) ==
    IF fault.kind = "raise"
    THEN HTTPException(<<"U97FB", "U5F8B", "U691C", "U7D22", "U30A8", "U30E9", "U30FC", ":", " ">>
                            \o fault.msg)
    ELSE JSONResponse(search_rhymes_for_gpt(gpt, request.word, request.max_results,
                                            request.phonetic_similarity))

analyze_phonetics(gpt, request, fault) ==
    IF fault.kind = "raise"
    THEN HTTPException(<<"U97F3", "U97FB", "U5206", "U6790", "U30A8", "U30E9", "U30FC", ":", " ">>
                            \o fault.msg)
    ELSE JSONResponse(analyze_phonetics_for_gpt(gpt, request.word, request.detailed))

\* the dictionary substituted for a falsy result
RapFallback(request) ==
    [status  |-> "fallback",
     theme   |-> request.theme,
     lyrics  |-> << request.theme \o <<"U3078", "U306E", "U601D", "U3044", "U3001", "U5FC3",
                                      "U306B", "U97FF", "U304F">> >>,
     message |-> <<"U57FA", "U672C", "U7684", "U306A", "U30E9", "U30C3", "U30D7", "U3092",
                   "U751F", "U6210", "U3057", "U307E", "U3057", "U305F">>]

\* fallback_result of the except branch
RapErrorFallback(request, msg) ==
    [status  |-> "error_fallback",
     theme   |-> request.theme,
     style   |-> IF request.style = None \/ request.style = Some(<<>>)
                 THEN <<"m", "o", "d", "e", "r", "n">> ELSE request.style[1],
     lyrics  |-> << request.theme \o <<"U306E", "U5149", "U3001", "U95C7", "U3092", "U7167", "U3089", "U3059">>,
                    <<"U56F0", "U96E3", "U8D8A", "U3048", "U3066", "U3001">> \o request.theme
                        \o <<"U3078", "U5411", "U304B", "U3046">>,
                    <<"U4FE1", "U3058", "U308B", "U5FC3", "U3001">> \o request.theme
                        \o <<"U3068", "U3068", "U3082", "U306B">>,
                    <<"U672A", "U6765", "U3078", "U6B69", "U3080", "U3001">> \o request.theme
                        \o <<"U306E", "U9053">> >>,
     rhyme_analysis |-> [pattern |-> "ABAB"],
     message |-> <<"U30B5", "U30FC", "U30D0", "U30FC", "U30A8", "U30E9", "U30FC", "U306E", "U305F",
                   "U3081", "U57FA", "U672C", "U30E9", "U30C3", "U30D7", "U3092", "U751F", "U6210",
                   ":", " ">> \o msg]

\* a rap handler that answers an exception like the other two handlers do, with a 500
generate_rap_suggestions_reraise(gpt, request, fault) ==
    IF fault.kind = "raise"
    THEN HTTPException(fault.msg)
    ELSE IF fault.kind = "falsy"
         THEN JSONResponse(RapFallback(request))
         ELSE JSONResponse(generate_rap_suggestions_for_gpt(gpt, request.theme,
                                request.rhyme_words, request.style, request.max_lines))

generate_rap_suggestions(gpt, request, fault) ==
    IF fault.kind = "raise"
    THEN JSONResponse(RapErrorFallback(request, fault.msg))
    ELSE IF fault.kind = "falsy"
         THEN JSONResponse(RapFallback(request))
         ELSE JSONResponse(generate_rap_suggestions_for_gpt(gpt, request.theme,
                                request.rhyme_words, request.style, request.max_lines))

---------------------------------------------------------------------------
(* The server: one module-level instance, requests of several connections    *)
(* in flight.  A handler is an async function without an await, so the event *)
(* loop runs it from start to end before it runs another one.                *)

Clients == {"c1", "c2"}

Idle == [st |-> "idle"]

Init ==
    /\ rhyme_gpt \in {RhymeSearchGPT(k) : k \in ApiKeys}
    /\ conn = [c \in Clients |-> Idle]

\* a validated request body arrives on a route
Receive(c, route, request) ==
    /\ conn[c].st = "idle"
    /\ conn' = [conn EXCEPT ![c] = [st |-> "pending", route |-> route, request |-> request]]
    /\ UNCHANGED rhyme_gpt

Done(c, fault, response) ==
    conn' = [conn EXCEPT ![c] = [st |-> "done", route |-> conn[c].route,
                                 request |-> conn[c].request, fault |-> fault,
                                 response |-> response]]

\* a search that stores the synthesized candidates in the table (setdefault for get)
HandleSearch_setdefault(c, fault) ==
    /\ conn[c].st = "pending"
    /\ conn[c].route = "search-rhymes"
    /\ Done(c, fault, search_rhymes(rhyme_gpt, conn[c].request, fault))
    /\ rhyme_gpt' =
        IF fault = NoFault /\ conn[c].request.word \notin DOMAIN rhyme_gpt.sample_rhymes
        THEN [rhyme_gpt EXCEPT !.sample_rhymes =
                (conn[c].request.word :> SynthesizedCandidates(conn[c].request.word)) @@ @]
        ELSE rhyme_gpt

HandleSearch(c, fault) ==
    /\ conn[c].st = "pending"
    /\ conn[c].route = "search-rhymes"
    /\ Done(c, fault, search_rhymes(rhyme_gpt, conn[c].request, fault))
    /\ UNCHANGED rhyme_gpt

HandleAnalyze(c, fault) ==
    /\ conn[c].st = "pending"
    /\ conn[c].route = "analyze-phonetics"
    /\ Done(c, fault, analyze_phonetics(rhyme_gpt, conn[c].request, fault))
    /\ UNCHANGED rhyme_gpt

HandleRap(c, fault) ==
    /\ conn[c].st = "pending"
    /\ conn[c].route = "generate-rap-suggestions"
    /\ Done(c, fault, generate_rap_suggestions(rhyme_gpt, conn[c].request, fault))
    /\ UNCHANGED rhyme_gpt

\* the response has been sent; nothing of the request is kept
Reply(c) ==
    /\ conn[c].st = "done"
    /\ conn' = [conn EXCEPT ![c] = Idle]
    /\ UNCHANGED rhyme_gpt

Next ==
    \E c \in Clients :
        \/ \E r \in RhymeSearchRequest : Receive(c, "search-rhymes", r)
        \/ \E r \in PhoneticAnalysisRequest : Receive(c, "analyze-phonetics", r)
        \/ \E r \in RapSuggestionRequest : Receive(c, "generate-rap-suggestions", r)
        \/ HandleSearch(c, NoFault)
        \/ HandleAnalyze(c, NoFault)
        \/ HandleRap(c, NoFault)
        \/ Reply(c)

Spec == Init /\ [][Next]_vars

\* the same server with the business-logic methods replaced by failing ones
NextFault ==
    \/ Next
    \/ \E c \in Clients :
        \/ \E f \in RaiseFaults : HandleSearch(c, f)
        \/ \E f \in RaiseFaults : HandleAnalyze(c, f)
        \/ \E f \in RaiseFaults \cup {FalsyFault} : HandleRap(c, f)

SpecFault == Init /\ [][NextFault]_vars

TypeOK ==
    /\ rhyme_gpt.api_key \in ApiKeys
    /\ \A c \in Clients : conn[c].st \in {"idle", "pending", "done"}

---------------------------------------------------------------------------
(* Properties *)

\* connection c holds the response of an unmodified handler run on the route
Served(c, route) ==
    conn[c].st = "done" /\ conn[c].route = route /\ conn[c].fault = NoFault

\* connection c holds the response of a run whose business-logic call raised
Raised(c, route) ==
    conn[c].st = "done" /\ conn[c].route = route /\ conn[c].fault.kind = "raise"

\* C1: for a word that is a key of the rhyme table and an integer max_results n,
\* the rhymes list has length min(n, |table[w]|) and is a prefix of table[w].
C1_PrefixOfTableEntry ==
    \A c \in Clients :
        (/\ Served(c, "search-rhymes")
         /\ conn[c].request.word \in DOMAIN sample_rhymes
         /\ conn[c].request.max_results # None)
        => LET entry  == sample_rhymes[conn[c].request.word]
               rhymes == conn[c].response.content.rhymes
           IN  /\ Len(rhymes) = Min(conn[c].request.max_results[1], Len(entry))
               /\ IsPrefix(rhymes, entry)

\* C2: for a word that is no key of the rhyme table and an integer max_results n,
\* the search answers status "success" and the rhymes list is the first min(n, 3)
\* elements of the synthesized 3-candidate list.
C2_SynthesizedTruncated ==
    \A c \in Clients :
        (/\ Served(c, "search-rhymes")
         /\ conn[c].request.word \notin DOMAIN sample_rhymes
         /\ conn[c].request.max_results # None)
        => LET rhymes == conn[c].response.content.rhymes
           IN  /\ conn[c].response.status_code = 200
               /\ conn[c].response.content.status = "success"
               /\ Len(SynthesizedCandidates(conn[c].request.word)) = 3
               /\ Len(rhymes) = Min(conn[c].request.max_results[1], 3)
               /\ IsPrefix(rhymes, SynthesizedCandidates(conn[c].request.word))

\* C3: for an integer max_lines, the lyrics list has length min(max_lines, 8), is
\* taken in order from the start of the 8 template lines, and every line contains
\* the theme.
C3_LyricsTruncated ==
    \A c \in Clients :
        (Served(c, "generate-rap-suggestions") /\ conn[c].request.max_lines # None)
        => LET lyrics == conn[c].response.content.lyrics
           IN  /\ Len(RapTemplates(conn[c].request.theme)) = 8
               /\ Len(lyrics) = Min(conn[c].request.max_lines[1], 8)
               /\ IsPrefix(lyrics, RapTemplates(conn[c].request.theme))
               /\ \A i \in 1..Len(lyrics) : Contains(lyrics[i], conn[c].request.theme)

\* C4: the rap endpoint always answers 200; when rap generation raises, the answer
\* has status "error_fallback", exactly 4 lyric lines each containing the theme,
\* and a message that embeds the exception text.
C4_RapNeverFails ==
    \A c \in Clients :
        (conn[c].st = "done" /\ conn[c].route = "generate-rap-suggestions")
        => /\ conn[c].response.status_code = 200
           /\ Raised(c, "generate-rap-suggestions")
              => LET body == conn[c].response.content
                 IN  /\ body.status = "error_fallback"
                     /\ Len(body.lyrics) = 4
                     /\ \A i \in 1..4 : Contains(body.lyrics[i], conn[c].request.theme)
                     /\ Contains(body.message, conn[c].fault.msg)

C4_Witness ==
    \E c \in Clients :
        /\ Raised(c, "generate-rap-suggestions")
        /\ conn[c].fault.msg = <<"b", "o", "o", "m">>
        /\ conn[c].request.theme = <<"U5E0C", "U671B">>

\* C5: on the search and analysis endpoints a raised exception gives a 500 whose
\* detail contains the exception's message, and a call that does not raise gives
\* the computed result unchanged with a 200.
C5_ErrorsSurfaceAs500 ==
    \A c \in Clients :
        /\ Raised(c, "search-rhymes") \/ Raised(c, "analyze-phonetics")
           => /\ conn[c].response.status_code = 500
              /\ Contains(conn[c].response.detail, conn[c].fault.msg)
        /\ Served(c, "search-rhymes")
           => conn[c].response =
                [status_code |-> 200,
                 content |-> search_rhymes_for_gpt(rhyme_gpt, conn[c].request.word,
                                conn[c].request.max_results,
                                conn[c].request.phonetic_similarity)]
        /\ Served(c, "analyze-phonetics")
           => conn[c].response =
                [status_code |-> 200,
                 content |-> analyze_phonetics_for_gpt(rhyme_gpt, conn[c].request.word,
                                conn[c].request.detailed)]

C5_Witness ==
    /\ \E c \in Clients :
        Raised(c, "search-rhymes") /\ conn[c].fault.msg = <<"b", "o", "o", "m">>
    /\ \E c \in Clients : Served(c, "analyze-phonetics")

\* C6 as stated: analysis gives mora_count = len(w), and for the empty string a
\* mora_count of 0 and an ending-vowel field that is the empty string.
C6_Original ==
    \A c \in Clients :
        Served(c, "analyze-phonetics")
        => LET body == conn[c].response.content
           IN  /\ body.mora_count = Len(conn[c].request.word)
               /\ conn[c].request.word = <<>>
                  => /\ body.mora_count = 0
                     /\ "ending_vowel" \in DOMAIN body
                     /\ body.ending_vowel = <<>>

\* C6 amended: analysis succeeds with mora_count = len(w) (0 for the empty string)
\* and has no ending-vowel field; the ending-vowel field is part of the
\* phonetic_analysis of a search result, where it is empty for the empty word.
C6_MoraCount ==
    \A c \in Clients :
        /\ Served(c, "analyze-phonetics")
           => LET body == conn[c].response.content
              IN  /\ conn[c].response.status_code = 200
                  /\ body.status = "success"
                  /\ body.mora_count = Len(conn[c].request.word)
                  /\ conn[c].request.word = <<>> => body.mora_count = 0
                  /\ "ending_vowel" \notin DOMAIN body
        /\ Served(c, "search-rhymes") /\ conn[c].request.word = <<>>
           => /\ conn[c].response.content.phonetic_analysis.mora_count = 0
              /\ conn[c].response.content.phonetic_analysis.ending_vowel = <<>>

C6_Witness ==
    /\ \E c \in Clients : Served(c, "analyze-phonetics") /\ conn[c].request.word = <<>>
    /\ \E c \in Clients :
        Served(c, "analyze-phonetics") /\ Len(conn[c].request.word) = 2

\* the response a request gets from a server whose table is the startup table
Expected(route, request) ==
    LET gpt == RhymeSearchGPT(rhyme_gpt.api_key)
    IN  IF route = "search-rhymes" THEN search_rhymes(gpt, request, NoFault)
        ELSE IF route = "analyze-phonetics" THEN analyze_phonetics(gpt, request, NoFault)
        ELSE generate_rap_suggestions(gpt, request, NoFault)

\* C7: whatever requests were served or are in flight, the rhyme table is the one
\* built at startup, and every response is the one its own request gets from
\* that table.
C7_TableReadOnly ==
    /\ rhyme_gpt.sample_rhymes = sample_rhymes
    /\ \A c \in Clients :
        conn[c].st = "done" => conn[c].response = Expected(conn[c].route, conn[c].request)

\* a response computed while the other connection holds a served search for an
\* unknown word
C7_Witness ==
    \E c, d \in Clients :
        /\ c # d
        /\ Served(c, "search-rhymes")
        /\ conn[c].request.word \notin DOMAIN sample_rhymes
        /\ Served(d, "search-rhymes")
        /\ conn[d].request.word = conn[c].request.word

\* C8: two searches that differ only in phonetic_similarity get the same
\* response, and so do two analyses that differ only in detailed.
C8_InertParameters ==
    \A c, d \in Clients :
        /\ (/\ Served(c, "search-rhymes") /\ Served(d, "search-rhymes")
            /\ conn[c].request.word = conn[d].request.word
            /\ conn[c].request.max_results = conn[d].request.max_results)
           => conn[c].response = conn[d].response
        /\ (/\ Served(c, "analyze-phonetics") /\ Served(d, "analyze-phonetics")
            /\ conn[c].request.word = conn[d].request.word)
           => conn[c].response = conn[d].response

C8_Witness ==
    \E c, d \in Clients :
        /\ Served(c, "search-rhymes") /\ Served(d, "search-rhymes")
        /\ conn[c].request.word = conn[d].request.word
        /\ conn[c].request.word = <<"U611B">>
        /\ conn[c].request.max_results = conn[d].request.max_results
        /\ conn[c].request.max_results = Some(5)
        /\ conn[c].request.phonetic_similarity # conn[d].request.phonetic_similarity

\* C9 as stated: for a word that is no key, every returned candidate is the word
\* followed by a marker that does not depend on the word (the marker is then the
\* candidate synthesized for the empty word).
C9_Original ==
    \A c \in Clients :
        (Served(c, "search-rhymes") /\ conn[c].request.word \notin DOMAIN sample_rhymes)
        => LET rhymes == conn[c].response.content.rhymes
           IN  \A i \in 1..Len(rhymes) :
                  rhymes[i] = conn[c].request.word \o SynthesizedCandidates(<<>>)[i]

\* C9 amended: for a word that is no key, the first two candidates are the word
\* followed by a fixed one-character marker, and the third is a fixed
\* two-character string that does not include the word.
C9_TwoSuffixedOneFixed ==
    \A c \in Clients :
        (Served(c, "search-rhymes") /\ conn[c].request.word \notin DOMAIN sample_rhymes)
        => LET rhymes == conn[c].response.content.rhymes
               word   == conn[c].request.word
           IN  \A i \in 1..Len(rhymes) :
                  /\ i = 1 => rhymes[i] = word \o <<"U97F3">>
                  /\ i = 2 => rhymes[i] = word \o <<"U97FB">>
                  /\ i = 3 => rhymes[i] = <<"U985E", "U4F3C">>
                  /\ i <= 3

C9_Witness ==
    \E c \in Clients :
        /\ Served(c, "search-rhymes")
        /\ conn[c].request.word = <<"U732B">>
        /\ Len(conn[c].response.content.rhymes) = 3

=============================================================================
